---- MODULE Spec2Model ----
(***************************************************************************)
(* Model of the local cache and query engine of the awesome-directories    *)
(* CLI (package cache: GetDirectories, Sync, FilterDirectories, Clear,     *)
(* GetCacheInfo and their helpers; package models: Directory,             *)
(* FilterOptions).                                                         *)
(*                                                                         *)
(* The specifications of the module:                                       *)
(*   Spec        the fetch orchestrator over the two on-disk artifacts     *)
(*   FilterSpec  the pure function FilterDirectories over bounded inputs   *)
(*   ListSpec    the sort and pagination stages of FilterDirectories, as   *)
(*               the list command drives them, on longer collections       *)
(*   NoFaultSpec Spec without disk faults                                  *)
(*   ShowSpec    the show command: Client.GetDirectory against the remote  *)
(*   FavSpec     the favorites commands over a cache and the remote        *)
(*   RaceSpec    two processes running GetDirectories and Sync step by     *)
(*               step on the same cache directory                          *)
(***************************************************************************)
EXTENDS Integers, Sequences, FiniteSets, TLC

VARIABLES
    cacheFile,    \* directories.json : [st, data]
    metaFile,     \* metadata.json    : [st, last_updated, count]
    now,          \* the wall clock (time.Now)
    ttl,          \* cfg.CacheTTL
    call,         \* the last operation invoked and its arguments
    remoteCalls,  \* how often the last operation called apiClient.GetDirectories
    fetched,      \* what apiClient.GetDirectories returned to the last operation
    saved,        \* what saveToCache returned to the last operation
    ret,          \* what the last operation returned
    prevCache,    \* directories.json as it was when the last operation began
    directories,  \* FilterDirectories: argument directories
    options,      \* FilterDirectories: argument options
    filtered,     \* FilterDirectories: local filtered after the loop (line 178)
    result,       \* FilterDirectories: outcome of the call
    again,        \* FilterDirectories: outcome of a second call on the same arguments
    remote,       \* the remote's tables: [rows, favorites]
    cmd,          \* the last show or favorites command and its outcome
    procs         \* the processes sharing the cache directory: pc and locals of each

cacheVars == <<cacheFile, metaFile, now, ttl, call, remoteCalls, fetched, saved,
               ret, prevCache>>
filterVars == <<directories, options, filtered, result, again>>
cliVars == <<remote, cmd, procs>>
vars == <<cacheFile, metaFile, now, ttl, call, remoteCalls, fetched, saved, ret,
          prevCache, directories, options, filtered, result, again, remote, cmd, procs>>

(***************************************************************************)
(* Bounds of the model.                                                    *)
(***************************************************************************)
MaxCount == 2     \* longest collection the remote returns (Spec)
MaxTime == 2      \* the clock runs 0..MaxTime (Spec)
MaxTTL == 1       \* cfg.CacheTTL ranges over 0..MaxTTL (Spec)
MaxDirs == 2      \* longest input collection of FilterDirectories (FilterSpec)
MaxList == 5      \* longest input collection of FilterDirectories (ListSpec)
MaxRows == 2      \* most rows of the remote's directories table (ShowSpec)

(***************************************************************************)
(* Strings are sequences of one-character strings, so that lower-casing,   *)
(* case folding and substring search are computed, not assumed.            *)
(***************************************************************************)
LowerOf == ("A" :> "a") @@ ("B" :> "b") @@ ("D" :> "d") @@ ("F" :> "f")
           @@ ("I" :> "i") @@ ("O" :> "o") @@ ("P" :> "p") @@ ("X" :> "x")

ToLowerRune(c) == IF c \in DOMAIN LowerOf THEN LowerOf[c] ELSE c

\* strings.ToLower
ToLower(s) == [i \in 1..Len(s) |-> ToLowerRune(s[i])]

\* strings.EqualFold (simple case folding; on ASCII letters, equality up to case)
EqualFold(s, t) ==
    /\ Len(s) = Len(t)
    /\ \A i \in 1..Len(s) : ToLowerRune(s[i]) = ToLowerRune(t[i])

\* strings.Contains
Contains(s, substr) ==
    \E i \in 0..(Len(s) - Len(substr)) : SubSeq(s, i + 1, i + Len(substr)) = substr

(***************************************************************************)
(* models.Directory: the fields FilterDirectories and the cache read.      *)
(***************************************************************************)
Directory(id, slug, name, desc, cats, pricing, linkType, dr, helpful, created, active) ==
    [ID |-> id, Slug |-> slug,
     Name |-> name, Description |-> desc, Categories |-> cats, Pricing |-> pricing,
     LinkType |-> linkType, DomainRating |-> dr, HelpfulCount |-> helpful,
     CreatedAt |-> created, IsActive |-> active]

\* Two catalogue entries that differ in every text field.
ProfileA(dr, active) ==
    Directory(0, <<"a", "i">>, <<"A", "i">>, <<"b">>, << <<"A", "I">>, <<"d", "b">> >>,
              <<"F", "r">>, <<"d", "o">>, dr, 0, 0, active)

ProfileB(dr, active) ==
    Directory(0, <<"b">>, <<"b">>, <<"x", "a", "I">>, << <<"D", "b">> >>,
              <<"p", "d">>, <<"n", "o">>, dr, 0, 0, active)

\* domain_rating of a record: negative, unknown (0), and two known values
Ratings == {-1, 0, 1, 2}

\* The records FilterDirectories is given: the first entry, active, at every
\* rating; the second entry, active at a known rating and inactive.
Pool ==
    { ProfileA(dr, TRUE) : dr \in Ratings } \cup { ProfileB(2, TRUE), ProfileB(0, FALSE) }

SeqsUpTo(S, n) == UNION { [1..k -> S] : k \in 0..n }


(***************************************************************************)
(* Errors are wrap chains: fmt.Errorf("msg: %w", err) puts msg in front.   *)
(***************************************************************************)
NoErr == <<>>

Wrap(msg, err) == <<msg>> \o err

(***************************************************************************)
(* The persisted store.  A file is absent, present but not parseable       *)
(* ("corrupt": truncated by a failed write, or otherwise unreadable), or   *)
(* holds the JSON document that was last written in full.                  *)
(***************************************************************************)
\* json.MarshalIndent of one Directory: an object keyed by the json tags
MarshalDirectory(dir) ==
    [id |-> dir.ID, slug |-> dir.Slug,
     name |-> dir.Name, description |-> dir.Description, categories |-> dir.Categories,
     pricing |-> dir.Pricing, link_type |-> dir.LinkType,
     domain_rating |-> dir.DomainRating, helpful_count |-> dir.HelpfulCount,
     created_at |-> dir.CreatedAt, is_active |-> dir.IsActive]

\* json.MarshalIndent(directories): an array of objects, in the slice's order
MarshalIndent(dirs) == [i \in 1..Len(dirs) |-> MarshalDirectory(dirs[i])]

\* decoding with helpful_count matched to no field: the field keeps its zero value
UnmarshalDirectory_TagMismatch(obj) ==
    [ID |-> obj.id, Slug |-> obj.slug,
     Name |-> obj.name, Description |-> obj.description, Categories |-> obj.categories,
     Pricing |-> obj.pricing, LinkType |-> obj.link_type,
     DomainRating |-> obj.domain_rating, HelpfulCount |-> 0,
     CreatedAt |-> obj.created_at, IsActive |-> obj.is_active]

\* json.Unmarshal of one object into a Directory, key by json tag
UnmarshalDirectory(obj) ==
    [ID |-> obj.id, Slug |-> obj.slug,
     Name |-> obj.name, Description |-> obj.description, Categories |-> obj.categories,
     Pricing |-> obj.pricing, LinkType |-> obj.link_type,
     DomainRating |-> obj.domain_rating, HelpfulCount |-> obj.helpful_count,
     CreatedAt |-> obj.created_at, IsActive |-> obj.is_active]

\* json.Unmarshal(data, &directories)
Unmarshal(data) == [i \in 1..Len(data) |-> UnmarshalDirectory(data[i])]

AbsentFile == [st |-> "absent", data |-> <<>>]

CorruptFile == [st |-> "corrupt", data |-> <<>>]

DataFile(dirs) == [st |-> "ok", data |-> MarshalIndent(dirs)]

AbsentMeta == [st |-> "absent", last_updated |-> 0, count |-> 0]

CorruptMeta == [st |-> "corrupt", last_updated |-> 0, count |-> 0]

\* CacheMetadata{LastUpdated, Version: "1.0", Count}
CacheMetadata(t, n) == [st |-> "ok", last_updated |-> t, count |-> n]

\* The remote's catalogue in Spec: its i-th record is told from the others by
\* its rating, helpful count and creation time, and every other one is
\* inactive; what the remote returns is the catalogue's first k records.
RemoteDir(i) ==
    [(IF i % 2 = 1 THEN ProfileA(i, TRUE) ELSE ProfileB(i, FALSE))
        EXCEPT !.ID = i, !.HelpfulCount = i, !.CreatedAt = i]

Collections == { [i \in 1..k |-> RemoteDir(i)] : k \in 0..MaxCount }

\* apiClient.GetDirectories(ctx, nil): a collection, or one of its errors
\* (transport failure or cancelled context, non-2xx status).
RemoteErrors ==
    { <<"failed to fetch directories", "context canceled">>, <<"API error">> }

RemoteOutcomes ==
    { [err |-> NoErr, dirs |-> c] : c \in Collections }
        \cup { [err |-> e, dirs |-> <<>>] : e \in RemoteErrors }

NoFetch == [err |-> NoErr, dirs |-> <<>>]

\* Where a disk fault strikes a Save: nowhere, at os.MkdirAll, at opening or at
\* writing directories.json, at opening or at writing metadata.json.
SaveFaults == {"none", "mkdir", "open_cache", "write_cache", "open_meta", "write_meta"}

\* Where a disk fault strikes a Clear.
ClearFaults == {"none", "remove_cache", "remove_meta"}

\* loadMetadata
loadMetadata(mf) ==
    CASE mf.st = "absent"  -> [err |-> Wrap("failed to read metadata file", <<"ENOENT">>), meta |-> mf]
      [] mf.st = "corrupt" -> [err |-> Wrap("failed to unmarshal metadata", <<"syntax">>), meta |-> mf]
      [] OTHER             -> [err |-> NoErr, meta |-> mf]

\* loadFromCache
loadFromCache(cf) ==
    CASE cf.st = "absent"  -> [err |-> Wrap("failed to read cache file", <<"ENOENT">>), dirs |-> <<>>]
      [] cf.st = "corrupt" -> [err |-> Wrap("failed to unmarshal cache", <<"syntax">>), dirs |-> <<>>]
      [] OTHER             -> [err |-> NoErr, dirs |-> Unmarshal(cf.data)]

\* isCacheValid with the expiry test dropped
isCacheValid_NoExpiry(cf, mf, t, cacheTTL) ==
    loadMetadata(mf).err = NoErr /\ cf.st # "absent"

\* isCacheValid with the expiry test at >=: a cache as old as the TTL is expired
isCacheValid_ExpiredAtTTL(cf, mf, t, cacheTTL) ==
    LET m == loadMetadata(mf) IN
    IF m.err # NoErr THEN FALSE
    ELSE IF t - m.meta.last_updated >= cacheTTL THEN FALSE
    ELSE IF cf.st = "absent" THEN FALSE
    ELSE TRUE

\* isCacheValid without the os.Stat of the collection file
isCacheValid_NoStat(cf, mf, t, cacheTTL) ==
    LET m == loadMetadata(mf) IN
    IF m.err # NoErr THEN FALSE
    ELSE IF t - m.meta.last_updated > cacheTTL THEN FALSE
    ELSE TRUE

\* isCacheValid
isCacheValid(cf, mf, t, cacheTTL) ==
    LET m == loadMetadata(mf) IN
    IF m.err # NoErr THEN FALSE
    ELSE IF t - m.meta.last_updated > cacheTTL THEN FALSE
    ELSE IF cf.st = "absent" THEN FALSE
    ELSE TRUE

\* saveMetadata: os.WriteFile(metaFile) fails at open (file untouched) or while
\* writing (file left truncated).
saveMetadata(mf, meta, fault) ==
    CASE fault = "open_meta"  -> [meta |-> mf, err |-> Wrap("failed to write metadata file", <<"EACCES">>)]
      [] fault = "write_meta" -> [meta |-> CorruptMeta, err |-> Wrap("failed to write metadata file", <<"ENOSPC">>)]
      [] OTHER                -> [meta |-> meta, err |-> NoErr]

\* saveToCache appending to the old collection instead of replacing it
saveToCache_Merge(cf, mf, dirs, t, fault) ==
    [cache |-> DataFile(Unmarshal(cf.data) \o dirs),
     meta |-> CacheMetadata(t, Len(cf.data) + Len(dirs)), err |-> NoErr]

\* metadata stamped with the count the previous metadata had
Stamp_OldCount(mf, dirs, t) ==
    CacheMetadata(t, IF mf.st = "ok" THEN mf.count ELSE 0)

\* metadata stamped with the time only, Count left at its zero value
Stamp_NoCount(mf, dirs, t) == CacheMetadata(t, 0)

\* saveToCache, lines 262-266: LastUpdated: time.Now(), Count: len(directories)
Stamp(mf, dirs, t) == CacheMetadata(t, Len(dirs))

\* saveToCache replacing both files only when every write has succeeded
saveToCache_Atomic(cf, mf, dirs, t, fault) ==
    IF fault = "none"
    THEN [cache |-> DataFile(dirs), meta |-> CacheMetadata(t, Len(dirs)), err |-> NoErr]
    ELSE [cache |-> cf, meta |-> mf,
          err |-> CASE fault = "mkdir" ->
                         Wrap("failed to create cache directory", <<"EACCES">>)
                    [] fault \in {"open_cache", "write_cache"} ->
                         Wrap("failed to write cache file", <<"EACCES">>)
                    [] OTHER ->
                         Wrap("failed to save metadata",
                              Wrap("failed to write metadata file", <<"EACCES">>))]

\* saveToCache writing metadata.json before directories.json
saveToCache_MetadataFirst(cf, mf, dirs, t, fault) ==
    CASE fault = "mkdir" ->
            [cache |-> cf, meta |-> mf,
             err |-> Wrap("failed to create cache directory", <<"EACCES">>)]
      [] fault \in {"open_meta", "write_meta"} ->
            LET m == saveMetadata(mf, CacheMetadata(t, Len(dirs)), fault) IN
            [cache |-> cf, meta |-> m.meta, err |-> Wrap("failed to save metadata", m.err)]
      [] fault = "open_cache" ->
            [cache |-> cf, meta |-> CacheMetadata(t, Len(dirs)),
             err |-> Wrap("failed to write cache file", <<"EACCES">>)]
      [] fault = "write_cache" ->
            [cache |-> CorruptFile, meta |-> CacheMetadata(t, Len(dirs)),
             err |-> Wrap("failed to write cache file", <<"ENOSPC">>)]
      [] OTHER ->
            [cache |-> DataFile(dirs), meta |-> CacheMetadata(t, Len(dirs)), err |-> NoErr]

\* saveToCache: MkdirAll, write directories.json, then stamp and write metadata.json
saveToCache(cf, mf, dirs, t, fault) ==
    CASE fault = "mkdir" ->
            [cache |-> cf, meta |-> mf,
             err |-> Wrap("failed to create cache directory", <<"EACCES">>)]
      [] fault = "open_cache" ->
            [cache |-> cf, meta |-> mf,
             err |-> Wrap("failed to write cache file", <<"EACCES">>)]
      [] fault = "write_cache" ->
            [cache |-> CorruptFile, meta |-> mf,
             err |-> Wrap("failed to write cache file", <<"ENOSPC">>)]
      [] OTHER ->
            LET m == saveMetadata(mf, Stamp(mf, dirs, t), fault) IN
            [cache |-> DataFile(dirs), meta |-> m.meta,
             err |-> IF m.err = NoErr THEN NoErr
                     ELSE Wrap("failed to save metadata", m.err)]

NoSave == [called |-> FALSE, err |-> NoErr]

NoInfo == [cached |-> FALSE, valid |-> FALSE, count |-> 0, age |-> 0]

Returned(has, dirs, err) == [has |-> has, dirs |-> dirs, err |-> err, info |-> NoInfo]

NoCall == [op |-> "NewCache", forceRefresh |-> FALSE, valid |-> FALSE]

\* the fetch failed and no stale cache is tried
OnFetchError_NoFallback(cf, err) ==
    Returned(FALSE, <<>>, Wrap("failed to fetch directories", err))

\* the fetch failed and the error of the cache read is the one returned
OnFetchError_CacheErr(cf, err) ==
    LET stale == loadFromCache(cf) IN
    IF stale.err = NoErr
    THEN Returned(TRUE, stale.dirs, NoErr)
    ELSE Returned(FALSE, <<>>, Wrap("failed to fetch directories", stale.err))

\* the fetch succeeded and a failed save fails the call, as in Sync
OnFetched_Propagate(dirs, saveErr) ==
    IF saveErr = NoErr THEN Returned(TRUE, dirs, NoErr)
    ELSE Returned(FALSE, <<>>, Wrap("failed to save to cache", saveErr))

\* the fetch failed and Sync returns nil all the same
SyncFetchFailed_Masked(err) == Returned(FALSE, <<>>, NoErr)

\* GetDirectories, lines 59-66: the fetch failed; the stale cache is tried
OnFetchError(cf, err) ==
    LET stale == loadFromCache(cf) IN
    IF stale.err = NoErr
    THEN Returned(TRUE, stale.dirs, NoErr)
    ELSE Returned(FALSE, <<>>, Wrap("failed to fetch directories", err))

\* GetDirectories, lines 68-73: the fetch succeeded; a failed save is only logged
OnFetched(dirs, saveErr) == Returned(TRUE, dirs, NoErr)

\* Sync, lines 81-83: the fetch failed
SyncFetchFailed(err) == Returned(FALSE, <<>>, Wrap("failed to fetch directories", err))

\* the fetch succeeded and a failed save is only logged, as in GetDirectories
SyncFetched_WarnOnly(saveErr) == Returned(FALSE, <<>>, NoErr)

\* Sync, lines 85-90: the fetch succeeded; a failed save is returned
SyncFetched(saveErr) ==
    Returned(FALSE, <<>>,
             IF saveErr = NoErr THEN NoErr ELSE Wrap("failed to save to cache", saveErr))

\* a cancelled or timed-out fetch taken for a success
FetchFailed_UnlessCancelled(r) == r.err # NoErr /\ r.err[Len(r.err)] # "context canceled"

\* GetDirectories line 59, Sync line 81: err != nil after the fetch
FetchFailed(r) == r.err # NoErr

\* the fetch tried a second time when it failed
FetchAttempts_RetryOnError(r) == IF r.err # NoErr THEN 2 ELSE 1

\* GetDirectories line 58, Sync line 80: apiClient.GetDirectories is called
\* once, outside any loop, whatever it returns
FetchAttempts(r) == 1

\* What every operation records when it begins.
Begin(op, forceRefresh) ==
    /\ call' = [op |-> op, forceRefresh |-> forceRefresh,
                valid |-> isCacheValid(cacheFile, metaFile, now, ttl)]
    /\ prevCache' = cacheFile
    /\ UNCHANGED <<now, ttl>>

\* GetDirectories, lines 56-73: fetch from the API, fall back to the stale
\* cache when that fails, save when it succeeds.
FetchFromAPI ==
    \E r \in RemoteOutcomes :
        /\ remoteCalls' = FetchAttempts(r)
        /\ fetched' = r
        /\ IF FetchFailed(r)
           THEN /\ ret' = OnFetchError(cacheFile, r.err)
                /\ saved' = NoSave
                /\ UNCHANGED <<cacheFile, metaFile>>
           ELSE \E fault \in SaveFaults :
                LET s == saveToCache(cacheFile, metaFile, r.dirs, now, fault) IN
                /\ cacheFile' = s.cache
                /\ metaFile' = s.meta
                /\ saved' = [called |-> TRUE, err |-> s.err]
                /\ ret' = OnFetched(r.dirs, s.err)

\* the cache judged valid only when it is younger than the TTL by a full tick
UseCache_YoungOnly(forceRefresh) ==
    /\ ~forceRefresh
    /\ isCacheValid(cacheFile, metaFile, now + 1, ttl)
    /\ loadFromCache(cacheFile).err = NoErr

\* GetDirectories, lines 47-54: the cache is used when it is valid and loads.
UseCache(forceRefresh) ==
    /\ ~forceRefresh
    /\ isCacheValid(cacheFile, metaFile, now, ttl)
    /\ loadFromCache(cacheFile).err = NoErr

\* Cache.GetDirectories(ctx, forceRefresh), lines 45-74: what one call does to
\* the cache, whoever the caller is
CacheGetDirectories(forceRefresh) ==
    /\ Begin("GetDirectories", forceRefresh)
    /\ IF UseCache(forceRefresh)
       THEN /\ ret' = Returned(TRUE, loadFromCache(cacheFile).dirs, NoErr)
            /\ remoteCalls' = 0
            /\ fetched' = NoFetch
            /\ saved' = NoSave
            /\ UNCHANGED <<cacheFile, metaFile>>
       ELSE FetchFromAPI

\* Cache.GetDirectories(ctx, forceRefresh), called by the list, search, filter
\* and export commands
GetDirectories(forceRefresh) ==
    /\ CacheGetDirectories(forceRefresh)
    /\ UNCHANGED filterVars
    /\ UNCHANGED cliVars

\* Cache.Sync(ctx)
Sync ==
    /\ Begin("Sync", TRUE)
    /\ \E r \in RemoteOutcomes :
        /\ remoteCalls' = FetchAttempts(r)
        /\ fetched' = r
        /\ IF FetchFailed(r)
           THEN /\ ret' = SyncFetchFailed(r.err)
                /\ saved' = NoSave
                /\ UNCHANGED <<cacheFile, metaFile>>
           ELSE \E fault \in SaveFaults :
                LET s == saveToCache(cacheFile, metaFile, r.dirs, now, fault) IN
                /\ cacheFile' = s.cache
                /\ metaFile' = s.meta
                /\ saved' = [called |-> TRUE, err |-> s.err]
                /\ ret' = SyncFetched(s.err)
    /\ UNCHANGED filterVars
    /\ UNCHANGED cliVars

\* os.Remove: the error it returns, nil, ENOENT for a missing file, or the fault
Remove(file, faulty) ==
    IF faulty THEN <<"EACCES">>
    ELSE IF file.st = "absent" THEN <<"ENOENT">>
    ELSE NoErr

\* os.IsNotExist
IsNotExist(err) == err = <<"ENOENT">>

\* a removal counted as failed when the file was missing, too
RemoveFailed_MissingIsError(err) == err # NoErr

\* Clear, lines 329 and 333: err != nil && !os.IsNotExist(err)
RemoveFailed(err) == err # NoErr /\ ~IsNotExist(err)

\* Cache.Clear(): os.Remove of each file; a missing file is not an error.
Clear ==
    /\ Begin("Clear", FALSE)
    /\ remoteCalls' = 0
    /\ fetched' = NoFetch
    /\ saved' = NoSave
    /\ \E fault \in ClearFaults :
        LET cacheErr == Remove(cacheFile, fault = "remove_cache")
            metaErr == Remove(metaFile, fault = "remove_meta")
        IN  IF RemoveFailed(cacheErr)
            THEN /\ ret' = Returned(FALSE, <<>>, Wrap("failed to remove cache file", cacheErr))
                 /\ UNCHANGED <<cacheFile, metaFile>>
            ELSE IF RemoveFailed(metaErr)
            THEN /\ ret' = Returned(FALSE, <<>>, Wrap("failed to remove metadata file", metaErr))
                 /\ cacheFile' = AbsentFile
                 /\ UNCHANGED metaFile
            ELSE /\ ret' = Returned(FALSE, <<>>, NoErr)
                 /\ cacheFile' = AbsentFile
                 /\ metaFile' = AbsentMeta
    /\ UNCHANGED filterVars
    /\ UNCHANGED cliVars

\* Cache.GetCacheInfo()
GetCacheInfo ==
    /\ Begin("GetCacheInfo", FALSE)
    /\ remoteCalls' = 0
    /\ fetched' = NoFetch
    /\ saved' = NoSave
    /\ LET m == loadMetadata(metaFile) IN
       ret' = [has |-> FALSE, dirs |-> <<>>, err |-> NoErr,
               info |-> IF m.err # NoErr THEN NoInfo
                        ELSE [cached |-> TRUE,
                              valid |-> isCacheValid(cacheFile, metaFile, now, ttl),
                              count |-> m.meta.count,
                              age |-> now - m.meta.last_updated]]
    /\ UNCHANGED <<cacheFile, metaFile>>
    /\ UNCHANGED filterVars
    /\ UNCHANGED cliVars

\* Time passes between two invocations of the tool.
Tick ==
    /\ now < MaxTime
    /\ now' = now + 1
    /\ UNCHANGED <<cacheFile, metaFile, ttl, call, remoteCalls, fetched, saved, ret,
                   prevCache>>
    /\ UNCHANGED filterVars
    /\ UNCHANGED cliVars

(***************************************************************************)
(* models.FilterOptions and Cache.FilterDirectories.                       *)
(***************************************************************************)
FilterOptions(query, cats, pricing, linkType, drMin, drMax, sortBy, limit, offset) ==
    [nil |-> FALSE, Query |-> query, Categories |-> cats, Pricing |-> pricing,
     LinkType |-> linkType, DRMin |-> drMin, DRMax |-> drMax, SortBy |-> sortBy,
     Limit |-> limit, Offset |-> offset]

\* &models.FilterOptions{}: every field at its zero value
ZeroOptions == FilterOptions(<<>>, <<>>, <<>>, <<>>, 0, 0, <<>>, 0, 0)

\* options == nil
NilOptions == [ZeroOptions EXCEPT !.nil = TRUE]

\* lines 107-116: the query is searched, lower-cased, in name and description
MatchesQuery(dir, o) ==
    LET query == ToLower(o.Query)
        name == ToLower(dir.Name)
        desc == ToLower(dir.Description)
    IN  Contains(name, query) \/ Contains(desc, query)

\* lines 118-135: hasCategory
HasCategory(dir, o) ==
    \E i \in 1..Len(o.Categories) : \E j \in 1..Len(dir.Categories) :
        EqualFold(o.Categories[i], dir.Categories[j])

\* lines 137-149: hasPrice
HasPrice(dir, o) ==
    \E i \in 1..Len(o.Pricing) : EqualFold(o.Pricing[i], dir.Pricing)

\* lines 151-163: hasLinkType
HasLinkType(dir, o) ==
    \E i \in 1..Len(o.LinkType) : EqualFold(o.LinkType[i], dir.LinkType)

\* the minimum bound applied to every record, unknown ratings included
BelowDRMin_NoExemption(dir, o) ==
    o.DRMin > 0 /\ dir.DomainRating < o.DRMin

\* lines 165-170: the record is dropped by the minimum bound
BelowDRMin(dir, o) ==
    o.DRMin > 0 /\ dir.DomainRating > 0 /\ dir.DomainRating < o.DRMin

\* lines 171-175: the record is dropped by the maximum bound
AboveDRMax(dir, o) ==
    o.DRMax > 0 /\ dir.DomainRating > 0 /\ dir.DomainRating > o.DRMax

\* the loop body with the fields' tests joined by "or"
Keeps_AnyField(dir, o) ==
    /\ dir.IsActive
    /\ (o.Query # <<>> => MatchesQuery(dir, o))
    /\ \/ (Len(o.Categories) > 0 => HasCategory(dir, o))
       \/ (Len(o.Pricing) > 0 => HasPrice(dir, o))
       \/ (Len(o.LinkType) > 0 => HasLinkType(dir, o))
    /\ ~BelowDRMin(dir, o)
    /\ ~AboveDRMax(dir, o)

\* the loop body with an empty pricing set matching no record
Keeps_EmptyMatchesNothing(dir, o) ==
    /\ dir.IsActive
    /\ (o.Query # <<>> => MatchesQuery(dir, o))
    /\ (Len(o.Categories) > 0 => HasCategory(dir, o))
    /\ HasPrice(dir, o)
    /\ (Len(o.LinkType) > 0 => HasLinkType(dir, o))
    /\ ~BelowDRMin(dir, o)
    /\ ~AboveDRMax(dir, o)

\* lines 101-177: the loop body reaches append(filtered, dir)
Keeps(dir, o) ==
    /\ dir.IsActive
    /\ (o.Query # <<>> => MatchesQuery(dir, o))
    /\ (Len(o.Categories) > 0 => HasCategory(dir, o))
    /\ (Len(o.Pricing) > 0 => HasPrice(dir, o))
    /\ (Len(o.LinkType) > 0 => HasLinkType(dir, o))
    /\ ~BelowDRMin(dir, o)
    /\ ~AboveDRMax(dir, o)

\* lines 99-178: the loop appends the kept records in input order
RECURSIVE FilterLoop(_, _)
FilterLoop(dirs, o) ==
    IF dirs = <<>> THEN <<>>
    ELSE LET rest == FilterLoop(SubSeq(dirs, 1, Len(dirs) - 1), o)
             dir == dirs[Len(dirs)]
         IN  IF Keeps(dir, o) THEN Append(rest, dir) ELSE rest

Reverse(seq) == [i \in 1..Len(seq) |-> seq[Len(seq) + 1 - i]]

\* sortDirectories turning the slice around
sortDirectories_Reversed(dirs, sortBy) == Reverse(dirs)

\* sortDirectories: the body is empty, the slice is left as it is
sortDirectories(dirs, sortBy) == dirs

Returns(dirs) == [panic |-> FALSE, dirs |-> dirs]

\* filtered[start:end] with start < 0: slice bounds out of range
Panics == [panic |-> TRUE, dirs |-> <<>>]

\* pagination with end left at start + Limit, past the end of the slice;
\* the slice expression then reads up to the capacity
Paginate_NoClamp(sorted, o) ==
    IF o.Limit > 0
    THEN LET start == o.Offset
             end == start + o.Limit
         IN  IF start >= Len(sorted) THEN Returns(<<>>)
             ELSE IF start < 0 THEN Panics
             ELSE Returns([i \in 1..(end - start) |->
                            IF start + i <= Len(sorted) THEN sorted[start + i]
                            ELSE sorted[Len(sorted)]])
    ELSE Returns(sorted)

\* lines 183-198: pagination
Paginate(sorted, o) ==
    IF o.Limit > 0
    THEN LET start == o.Offset
             end == IF start + o.Limit > Len(sorted) THEN Len(sorted)
                    ELSE start + o.Limit
         IN  IF start >= Len(sorted) THEN Returns(<<>>)
             ELSE IF start < 0 \/ start > end THEN Panics
             ELSE Returns(SubSeq(sorted, start + 1, end))
    ELSE Returns(sorted)

\* Cache.FilterDirectories(directories, options)
FilterDirectories(dirs, o) ==
    IF o.nil THEN Returns(dirs)
    ELSE Paginate(sortDirectories(FilterLoop(dirs, o), o.SortBy), o)

\* The filter specifications FilterDirectories is given.
Queries == { <<>>, <<"A", "i">>, <<"X", "a">> }

CategorySets == { <<>>, << <<"x">>, <<"a", "i">> >>, << <<"D", "B">> >> }

PricingSets == { <<>>, << <<"x">>, <<"P", "D">> >> }

LinkTypeSets == { <<>>, << <<"D", "O">> >> }

DRBounds == {0, 1, 2}

\* <<Limit, Offset>>
Pages == { <<0, 0>>, <<-1, 1>>, <<1, 1>> }

OptionSets ==
    { FilterOptions(q, c, p, l, lo, hi, <<"d", "r">>, pg[1], pg[2]) :
        q \in Queries, c \in CategorySets, p \in PricingSets, l \in LinkTypeSets,
        lo \in DRBounds, hi \in DRBounds, pg \in Pages }
    \cup {NilOptions}

\* models.SortOption
SortMostHelpful == <<"h", "e", "l", "p", "f", "u", "l">>

SortHighestDR == <<"d", "r">>

SortNewest == <<"n", "e", "w", "e", "s", "t">>

SortAlpha == <<"a", "l", "p", "h", "a">>

SortOptions == {SortMostHelpful, SortHighestDR, SortNewest, SortAlpha}

\* The records the list command filters: three active entries, of which the
\* second and third have the same name up to case, the same rating and the same
\* creation time, the first an unknown rating; and one inactive entry.
Entry(name, dr, helpful, created, active) ==
    Directory(0, ToLower(name), name, <<"b">>, <<>>, <<"F", "r">>, <<"d", "o">>, dr, helpful,
              created, active)

ListPool ==
    { Entry(<<"b">>, 0, 1, 1, TRUE), Entry(<<"A">>, 2, 0, 2, TRUE),
      Entry(<<"a">>, 2, 1, 2, TRUE), Entry(<<"a", "i">>, 1, 2, 3, FALSE) }

\* <<Limit, Offset>> of the list command's --limit and --offset flags
ListPages == { <<0, 3>>, <<-1, -1>>, <<10, 3>>, <<10, 5>>, <<2, 1>>, <<1, -1>> }

\* listCommand: Categories (none given), SortBy, Limit and Offset are set
ListOptionSets ==
    { FilterOptions(<<>>, <<>>, <<>>, <<>>, 0, 0, s, pg[1], pg[2]) :
        s \in SortOptions, pg \in ListPages }

NoRepeat == [done |-> FALSE, result |-> Returns(<<>>)]

\* No show or favorites command has run, no second process exists.
NoRemote == [rows |-> <<>>, favorites |-> {}]

\* (*models.Directory)(nil)
NoDirectory == ProfileA(0, FALSE)

NoCmd == [name |-> "none", slug |-> <<>>, found |-> FALSE, dir |-> NoDirectory,
          shown |-> <<>>, err |-> NoErr]

NoProcs == <<>>

CliIdle ==
    /\ remote = NoRemote
    /\ cmd = NoCmd
    /\ procs = NoProcs

\* A command has built its filter specification and not yet filtered.
FilterIdle ==
    /\ directories = <<>>
    /\ filtered = <<>>
    /\ result = Returns(<<>>)
    /\ again = NoRepeat
    /\ call = NoCall
    /\ CliIdle

\* One command passes the collection it got and its flags to FilterDirectories.
FilterCall ==
    /\ FilterIdle
    /\ \E dirs \in SeqsUpTo(Pool, MaxDirs) :
        /\ directories' = dirs
        /\ filtered' = IF options.nil THEN <<>> ELSE FilterLoop(dirs, options)
        /\ result' = FilterDirectories(dirs, options)
        /\ call' = [NoCall EXCEPT !.op = "FilterDirectories"]
    /\ UNCHANGED <<cacheFile, metaFile, now, ttl, remoteCalls, fetched, saved, ret,
                   prevCache, options, again>>
    /\ UNCHANGED cliVars

\* The list command passes the collection it got and its flags to
\* FilterDirectories.
ListCall ==
    /\ FilterIdle
    /\ \E dirs \in SeqsUpTo(ListPool, MaxList) :
        /\ directories' = dirs
        /\ filtered' = IF options.nil THEN <<>> ELSE FilterLoop(dirs, options)
        /\ result' = FilterDirectories(dirs, options)
        /\ call' = [NoCall EXCEPT !.op = "FilterDirectories"]
    /\ UNCHANGED <<cacheFile, metaFile, now, ttl, remoteCalls, fetched, saved, ret,
                   prevCache, options, again>>
    /\ UNCHANGED cliVars

\* The command is run a second time on the same collection with the same flags.
ListAgain ==
    /\ call.op = "FilterDirectories"
    /\ ~again.done
    /\ again' = [done |-> TRUE, result |-> FilterDirectories(directories, options)]
    /\ UNCHANGED <<cacheFile, metaFile, now, ttl, call, remoteCalls, fetched, saved,
                   ret, prevCache, directories, options, filtered, result>>
    /\ UNCHANGED cliVars

\* NewCache on a fresh installation: config.Load has created an empty cache
\* directory and fixed CacheTTL.
Init ==
    /\ cacheFile = AbsentFile
    /\ metaFile = AbsentMeta
    /\ now = 0
    /\ ttl \in 0..MaxTTL
    /\ call = NoCall
    /\ remoteCalls = 0
    /\ fetched = NoFetch
    /\ saved = NoSave
    /\ ret = Returned(FALSE, <<>>, NoErr)
    /\ prevCache = AbsentFile
    /\ directories = <<>>
    /\ options = NilOptions
    /\ filtered = <<>>
    /\ result = Returns(<<>>)
    /\ again = NoRepeat
    /\ CliIdle

Next ==
    \/ \E forceRefresh \in BOOLEAN : GetDirectories(forceRefresh)
    \/ Sync
    \/ Clear
    \/ GetCacheInfo
    \/ Tick

Spec == Init /\ [][Next]_vars

\* Spec on a disk that never fails: every Save succeeds and so does every
\* Clear.
NoFaultNext ==
    \/ \E forceRefresh \in BOOLEAN : GetDirectories(forceRefresh) /\ saved'.err = NoErr
    \/ Sync /\ saved'.err = NoErr
    \/ Clear /\ ret'.err = NoErr
    \/ GetCacheInfo
    \/ Tick

NoFaultSpec == Init /\ [][NoFaultNext]_vars

FilterNext == FilterCall

\* The filter is a pure function of its arguments: the cache is left as NewCache
\* made it, and the options are drawn from OptionSets.
FilterInit ==
    /\ cacheFile = AbsentFile
    /\ metaFile = AbsentMeta
    /\ now = 0
    /\ ttl = 0
    /\ remoteCalls = 0
    /\ fetched = NoFetch
    /\ saved = NoSave
    /\ ret = Returned(FALSE, <<>>, NoErr)
    /\ prevCache = AbsentFile
    /\ options \in OptionSets
    /\ FilterIdle

FilterSpec == FilterInit /\ [][FilterNext]_vars

(***************************************************************************)
(* api.Client.GetDirectory and the show command.                           *)
(***************************************************************************)
\* A row of the remote's directories table.
Row(id, slug, active) == [ProfileA(1, active) EXCEPT !.ID = id, !.Slug = slug]

RowPool ==
    { Row(1, <<"a", "i">>, TRUE), Row(2, <<"a", "i">>, FALSE),
      Row(3, <<"b">>, TRUE), Row(4, <<"b">>, FALSE),
      Row(5, <<"x">>, TRUE), Row(6, <<"x">>, FALSE) }

\* The tables the remote may hold: slugs are unique.
Tables ==
    { t \in SeqsUpTo(RowPool, MaxRows) :
        \A i \in 1..Len(t) : \A j \in 1..Len(t) : t[i].Slug = t[j].Slug => i = j }

\* The slugs a user asks for.
Slugs == { <<"a", "i">>, <<"b">>, <<"o">> }

\* What can go wrong with one request: nothing, client.Do fails, non-2xx status.
RequestFaults == {"none", "transport", "status"}

\* GET /rest/v1/directories?slug=eq.<slug>&select=* : the rows whose slug is
\* the one asked for, whatever their other columns
SelectBySlug(rows, slug) == SelectSeq(rows, LAMBDA r : r.Slug = slug)

\* Client.GetDirectory(ctx, slug)
GetDirectory(rows, slug, fault) ==
    CASE fault = "transport" ->
            [found |-> FALSE, dir |-> NoDirectory,
             err |-> Wrap("failed to fetch directory", <<"context canceled">>)]
      [] fault = "status" ->
            [found |-> FALSE, dir |-> NoDirectory, err |-> <<"API error">>]
      [] OTHER ->
            LET matching == SelectBySlug(rows, slug) IN
            IF Len(matching) = 0
            THEN [found |-> FALSE, dir |-> NoDirectory, err |-> <<"directory not found">>]
            ELSE [found |-> TRUE, dir |-> matching[1], err |-> NoErr]

\* showCommand: GetDirectory, then displayDirectoryDetails
ShowCommand ==
    /\ \E slug \in Slugs : \E fault \in RequestFaults :
        LET r == GetDirectory(remote.rows, slug, fault) IN
        cmd' = [name |-> "show", slug |-> slug, found |-> r.found, dir |-> r.dir,
                shown |-> IF r.found THEN <<r.dir>> ELSE <<>>,
                err |-> IF r.err = NoErr THEN NoErr
                        ELSE Wrap("failed to get directory", r.err)]
    /\ UNCHANGED <<cacheFile, metaFile, now, ttl, call, remoteCalls, fetched, saved,
                   ret, prevCache, remote, procs>>
    /\ UNCHANGED filterVars

ShowNext == ShowCommand

\* The show command against a remote that holds one of Tables.
ShowInit ==
    /\ cacheFile = AbsentFile
    /\ metaFile = AbsentMeta
    /\ now = 0
    /\ ttl = 0
    /\ call = NoCall
    /\ remoteCalls = 0
    /\ fetched = NoFetch
    /\ saved = NoSave
    /\ ret = Returned(FALSE, <<>>, NoErr)
    /\ prevCache = AbsentFile
    /\ directories = <<>>
    /\ options = NilOptions
    /\ filtered = <<>>
    /\ result = Returns(<<>>)
    /\ again = NoRepeat
    /\ remote \in { [rows |-> t, favorites |-> {}] : t \in Tables }
    /\ cmd = NoCmd
    /\ procs = NoProcs

ShowSpec == ShowInit /\ [][ShowNext]_vars

(***************************************************************************)
(* The favorites commands: list, add, remove.                              *)
(***************************************************************************)
\* cfg.AuthToken: none, one the remote accepts, one it answers with 401
Tokens == {"", "valid", "expired"}

\* The remote's answer to a request on user_favorites: the error of
\* GetFavorites, AddFavorite and RemoveFavorite, in the order of their checks
FavoritesError(token, fault) ==
    IF token = "" THEN <<"authentication required: please login first">>
    ELSE IF fault = "transport" THEN <<"failed to reach user_favorites">>
    ELSE IF token = "expired" THEN <<"unauthorized: please login again">>
    ELSE IF fault = "status" THEN <<"API error">>
    ELSE NoErr

\* Client.GetFavorites(ctx)
GetFavorites(favorites, token, fault) ==
    LET err == FavoritesError(token, fault) IN
    [favorites |-> IF err = NoErr THEN favorites ELSE {}, err |-> err]

\* Client.AddFavorite(ctx, directoryID): the table afterwards, and the error
AddFavorite(favorites, directoryID, token, fault) ==
    LET err == FavoritesError(token, fault) IN
    [favorites |-> IF err = NoErr THEN favorites \cup {directoryID} ELSE favorites,
     err |-> err]

\* Client.RemoveFavorite(ctx, directoryID): the table afterwards, and the error
RemoveFavorite(favorites, directoryID, token, fault) ==
    LET err == FavoritesError(token, fault) IN
    [favorites |-> IF err = NoErr THEN favorites \ {directoryID} ELSE favorites,
     err |-> err]

\* the directories fetched for an empty list of favorites, too
ListNeedsDirectories_Always(favorites) == TRUE

\* favorites list, line 835: with no favorites the command returns before it
\* asks the cache for the directories
ListNeedsDirectories(favorites) == favorites # {}

\* the outcome of a favorites command
FavOutcome(name, slug, shown, err) ==
    [name |-> name, slug |-> slug, found |-> FALSE, dir |-> NoDirectory,
     shown |-> shown, err |-> err]

AuthRequired == <<"authentication required: use 'auth login' or 'auth token' first">>

\* favorites list: GetFavorites, then the cache's GetDirectories(ctx, false),
\* then the directories whose ID is a favorite
FavList ==
    /\ \E token \in Tokens :
        IF token = ""
        THEN /\ cmd' = FavOutcome("favorites list", <<>>, <<>>, AuthRequired)
             /\ UNCHANGED cacheVars
        ELSE \E fault \in RequestFaults :
             LET f == GetFavorites(remote.favorites, token, fault) IN
             IF f.err # NoErr
             THEN /\ cmd' = FavOutcome("favorites list", <<>>, <<>>,
                                       Wrap("failed to get favorites", f.err))
                  /\ UNCHANGED cacheVars
             ELSE IF ~ListNeedsDirectories(f.favorites)
             THEN /\ cmd' = FavOutcome("favorites list", <<>>, <<>>, NoErr)
                  /\ UNCHANGED cacheVars
             ELSE /\ CacheGetDirectories(FALSE)
                  /\ cmd' = IF ret'.err # NoErr
                            THEN FavOutcome("favorites list", <<>>, <<>>,
                                            Wrap("failed to get directories", ret'.err))
                            ELSE FavOutcome("favorites list", <<>>,
                                            SelectSeq(ret'.dirs,
                                                      LAMBDA d : d.ID \in f.favorites),
                                            NoErr)
    /\ UNCHANGED <<remote, procs>>
    /\ UNCHANGED filterVars

\* favorites add <slug> and favorites remove <slug>: GetDirectory, then the
\* change of user_favorites, by AddFavorite when add is TRUE, else by
\* RemoveFavorite
FavChange(name, failure, add) ==
    /\ \E slug \in Slugs : \E token \in Tokens :
        IF token = ""
        THEN /\ cmd' = FavOutcome(name, slug, <<>>, AuthRequired)
             /\ UNCHANGED remote
        ELSE \E lookupFault \in RequestFaults :
             LET r == GetDirectory(remote.rows, slug, lookupFault) IN
             IF r.err # NoErr
             THEN /\ cmd' = FavOutcome(name, slug, <<>>,
                                       Wrap("failed to get directory", r.err))
                  /\ UNCHANGED remote
             ELSE \E fault \in RequestFaults :
                  LET c == IF add
                           THEN AddFavorite(remote.favorites, r.dir.ID, token, fault)
                           ELSE RemoveFavorite(remote.favorites, r.dir.ID, token, fault)
                  IN
                  IF c.err # NoErr
                  THEN /\ cmd' = FavOutcome(name, slug, <<>>, Wrap(failure, c.err))
                       /\ UNCHANGED remote
                  ELSE /\ cmd' = [FavOutcome(name, slug, <<>>, NoErr)
                                    EXCEPT !.found = TRUE, !.dir = r.dir]
                       /\ remote' = [remote EXCEPT !.favorites = c.favorites]
    /\ UNCHANGED cacheVars
    /\ UNCHANGED procs
    /\ UNCHANGED filterVars

FavAdd == FavChange("favorites add", "failed to add favorite", TRUE)

FavRemove == FavChange("favorites remove", "failed to remove favorite", FALSE)

FavNext ==
    \/ FavList
    \/ FavAdd
    \/ FavRemove

\* The remote's catalogue: the directories the cache fetches, as rows.
Catalogue == [i \in 1..MaxCount |-> RemoteDir(i)]

\* A fresh installation with the longest CacheTTL, a remote that holds the
\* catalogue, no favorites yet.
FavInit ==
    /\ cacheFile = AbsentFile
    /\ metaFile = AbsentMeta
    /\ now = 0
    /\ ttl = MaxTTL
    /\ call = NoCall
    /\ remoteCalls = 0
    /\ fetched = NoFetch
    /\ saved = NoSave
    /\ ret = Returned(FALSE, <<>>, NoErr)
    /\ prevCache = AbsentFile
    /\ directories = <<>>
    /\ options = NilOptions
    /\ filtered = <<>>
    /\ result = Returns(<<>>)
    /\ again = NoRepeat
    /\ remote = [rows |-> Catalogue, favorites |-> {}]
    /\ cmd = NoCmd
    /\ procs = NoProcs

FavSpec == FavInit /\ [][FavNext]_vars

ListNext ==
    \/ ListCall
    \/ ListAgain

\* The list command on collections of up to MaxList records.
ListInit ==
    /\ cacheFile = AbsentFile
    /\ metaFile = AbsentMeta
    /\ now = 0
    /\ ttl = 0
    /\ remoteCalls = 0
    /\ fetched = NoFetch
    /\ saved = NoSave
    /\ ret = Returned(FALSE, <<>>, NoErr)
    /\ prevCache = AbsentFile
    /\ options \in ListOptionSets
    /\ FilterIdle

ListSpec == ListInit /\ [][ListNext]_vars

(***************************************************************************)
(* Properties of the fetch orchestrator (checked under Spec).              *)
(***************************************************************************)
\* The step just taken is an invocation of op (Tick alone moves the clock).
Invoked(op) == call'.op = op /\ now' = now

\* The cache state as the claims describe it, read off the two files.
MetadataReadable == metaFile.st = "ok"

Fresh ==
    /\ MetadataReadable
    /\ now - metaFile.last_updated <= ttl
    /\ cacheFile.st # "absent"

Loadable == cacheFile.st = "ok"

\* C1: GetDirectories(forceRefresh) contacts the remote exactly when it is
\* forced, or the cache is not fresh (metadata unreadable, age > TTL, collection
\* file missing), or the collection does not load; otherwise it returns the
\* on-disk collection, does not contact the remote and leaves both files alone.
C1_RemoteIffNotServedFromCache ==
    [][ Invoked("GetDirectories") =>
          /\ (remoteCalls' > 0) <=> (call'.forceRefresh \/ ~Fresh \/ ~Loadable)
          /\ (remoteCalls' = 0) =>
                /\ ret' = Returned(TRUE, loadFromCache(cacheFile).dirs, NoErr)
                /\ fetched' = NoFetch
                /\ ~saved'.called
                /\ cacheFile' = cacheFile
                /\ metaFile' = metaFile ]_vars

\* C1 witness: an unforced call was served from a fresh, non-empty cache.
C1_Witness ==
    /\ call.op = "GetDirectories"
    /\ ~call.forceRefresh
    /\ call.valid
    /\ remoteCalls = 0
    /\ ret.has
    /\ ret.dirs = loadFromCache(prevCache).dirs
    /\ Len(ret.dirs) > 0

\* C2: when the fetch fails inside GetDirectories (forced or not) and the
\* collection file loads, the call returns that collection and no error,
\* whatever the metadata says.
C2_StaleFallback ==
    (/\ call.op = "GetDirectories"
     /\ remoteCalls > 0
     /\ fetched.err # NoErr
     /\ prevCache.st = "ok")
    => ret = Returned(TRUE, loadFromCache(prevCache).dirs, NoErr)

\* C2 witness: a forced call fell back on a collection that has no metadata.
C2_Witness ==
    /\ call.op = "GetDirectories"
    /\ call.forceRefresh
    /\ fetched.err # NoErr
    /\ ret.has
    /\ ret.dirs = loadFromCache(prevCache).dirs
    /\ Len(ret.dirs) > 0
    /\ cacheFile = prevCache
    /\ metaFile.st = "absent"

\* C3: when the fetch fails inside GetDirectories and the collection file does
\* not load either, the call returns no collection and the fetch's error,
\* wrapped, not the error of the cache read.
C3_FetchErrorPropagates ==
    (/\ call.op = "GetDirectories"
     /\ remoteCalls > 0
     /\ fetched.err # NoErr
     /\ prevCache.st # "ok")
    => /\ ~ret.has
       /\ ret.err = Wrap("failed to fetch directories", fetched.err)
       /\ ret.err # Wrap("failed to fetch directories", loadFromCache(prevCache).err)

\* C3 witness: the fetch was cancelled while the collection file was corrupt.
C3_Witness ==
    /\ call.op = "GetDirectories"
    /\ fetched.err = <<"failed to fetch directories", "context canceled">>
    /\ prevCache.st = "corrupt"
    /\ ~ret.has
    /\ ret.err # NoErr

\* C4: Sync always contacts the remote; when the fetch fails Sync returns an
\* error, a loadable snapshot notwithstanding, and leaves both files alone.
C4_SyncNoFallback ==
    [][ Invoked("Sync") =>
          /\ remoteCalls' = 1
          /\ fetched'.err # NoErr =>
                /\ ret'.err # NoErr
                /\ ~ret'.has
                /\ cacheFile' = cacheFile
                /\ metaFile' = metaFile ]_vars

\* C4 witness: Sync failed on a valid, loadable snapshot.
C4_Witness ==
    /\ call.op = "Sync"
    /\ call.valid
    /\ fetched.err # NoErr
    /\ ret.err # NoErr
    /\ cacheFile.st = "ok"
    /\ cacheFile = prevCache
    /\ Len(loadFromCache(cacheFile).dirs) > 0
    /\ metaFile.st = "ok"

\* C5: a forced GetDirectories whose fetch succeeds returns the remote's data
\* whatever the cache held; when the save meets no disk fault, the collection
\* file then holds exactly the remote's data (nothing of the old records) and
\* the metadata is stamped with the current time and the new length.
C5_ForcedRefreshReplaces ==
    [][ (/\ Invoked("GetDirectories")
         /\ call'.forceRefresh
         /\ fetched'.err = NoErr) =>
          /\ remoteCalls' = 1
          /\ ret' = Returned(TRUE, fetched'.dirs, NoErr)
          /\ saved'.called
          /\ saved'.err = NoErr =>
                /\ cacheFile' = DataFile(fetched'.dirs)
                /\ metaFile' = CacheMetadata(now, Len(fetched'.dirs)) ]_vars

\* C5 witness: a fresh snapshot of other data was replaced by a forced refresh.
C5_Witness ==
    /\ call.op = "GetDirectories"
    /\ call.forceRefresh
    /\ call.valid
    /\ prevCache.st = "ok"
    /\ Len(loadFromCache(prevCache).dirs) > 0
    /\ fetched.err = NoErr
    /\ Len(fetched.dirs) > 0
    /\ fetched.dirs # loadFromCache(prevCache).dirs
    /\ saved.called /\ saved.err = NoErr
    /\ ret.dirs = fetched.dirs
    /\ cacheFile = DataFile(fetched.dirs)

\* C6: when the fetch succeeds inside GetDirectories and the save fails, at
\* whichever step, the call still returns the fetched collection and no error.
C6_SaveFailureTolerated ==
    (/\ call.op = "GetDirectories"
     /\ remoteCalls > 0
     /\ fetched.err = NoErr
     /\ saved.called
     /\ saved.err # NoErr)
    => ret = Returned(TRUE, fetched.dirs, NoErr)

\* C6 witness: the metadata write failed after the collection was written.
C6_Witness ==
    /\ call.op = "GetDirectories"
    /\ fetched.err = NoErr
    /\ Len(fetched.dirs) > 0
    /\ saved.err # NoErr
    /\ saved.err[1] = "failed to save metadata"
    /\ ret.has
    /\ ret.dirs = fetched.dirs

\* C14: with the metadata readable and the collection file present, the cache
\* is judged fresh exactly when now - last_updated <= TTL: at an age equal to
\* the TTL it is fresh, at any greater age it is expired.
C14_FreshnessBoundary ==
    [][ (/\ call'.op # "NewCache"
         /\ now' = now
         /\ MetadataReadable
         /\ cacheFile.st # "absent") =>
          (call'.valid <=> now - metaFile.last_updated <= ttl) ]_vars

\* C14 witness: GetCacheInfo found a collection exactly as old as a TTL that is
\* not zero, and reported it valid.
C14_Witness ==
    /\ call.op = "GetCacheInfo"
    /\ call.valid
    /\ ret.info.cached
    /\ ret.info.valid
    /\ ttl > 0
    /\ ret.info.age = ttl
    /\ prevCache.st = "ok"

\* C15: with a TTL of zero every GetDirectories(false) contacts the remote,
\* also one made at the very instant of the metadata's timestamp.
C15_ZeroTTLAlwaysRefreshes ==
    (/\ call.op = "GetDirectories"
     /\ ~call.forceRefresh
     /\ ttl = 0)
    => remoteCalls > 0

\* C16: when the collection file is missing the cache is judged not valid,
\* whatever the metadata and its age; GetDirectories(false) then contacts the
\* remote, and when the remote fails it returns an error and no data.
C16_MetadataAloneIsNoCache ==
    (call.op # "NewCache" /\ prevCache.st = "absent") =>
        /\ ~call.valid
        /\ call.op = "GetDirectories" =>
              /\ remoteCalls > 0
              /\ fetched.err # NoErr =>
                    /\ ~ret.has
                    /\ ret.dirs = <<>>
                    /\ ret.err # NoErr

\* C16 witness: metadata young enough to be fresh had lost its collection
\* file; the unforced call went to the remote, which failed, and returned an
\* error.
C16_Witness ==
    /\ call.op = "GetDirectories"
    /\ ~call.forceRefresh
    /\ prevCache.st = "absent"
    /\ cacheFile.st = "absent"
    /\ metaFile.st = "ok"
    /\ now - metaFile.last_updated <= ttl
    /\ remoteCalls > 0
    /\ fetched.err # NoErr
    /\ ~ret.has
    /\ ret.err # NoErr

\* C17: a Clear returns an error only when a removal failed for another reason
\* than the file being missing; a Clear that returns success leaves both files
\* absent, from whatever state; and a successful Clear right after a
\* successful Clear changes nothing.
C17_ClearIdempotent ==
    [][ Invoked("Clear") =>
          /\ ret'.err = NoErr => (cacheFile' = AbsentFile /\ metaFile' = AbsentMeta)
          /\ ret'.err # NoErr => ret'.err[Len(ret'.err)] = "EACCES"
          /\ (call.op = "Clear" /\ ret.err = NoErr /\ ret'.err = NoErr) =>
                (cacheFile' = cacheFile /\ metaFile' = metaFile) ]_vars

\* C17 witness: a Clear removed a collection file that held records and
\* returned success.
C17_Witness ==
    /\ call.op = "Clear"
    /\ ret.err = NoErr
    /\ prevCache.st = "ok"
    /\ Len(loadFromCache(prevCache).dirs) > 0
    /\ cacheFile = AbsentFile
    /\ metaFile = AbsentMeta

C19_FailedFetchWritesNothing ==
    [][ ((Invoked("GetDirectories") \/ Invoked("Sync")) /\ fetched'.err # NoErr) =>
          /\ ~saved'.called
          /\ cacheFile' = cacheFile
          /\ metaFile' = metaFile ]_vars

\* C19 witness: a forced refresh was cancelled over a snapshot that held
\* records; the snapshot and its metadata are in place.
C19_Witness ==
    /\ call.op = "GetDirectories"
    /\ call.forceRefresh
    /\ fetched.err = <<"failed to fetch directories", "context canceled">>
    /\ ~saved.called
    /\ prevCache.st = "ok"
    /\ Len(prevCache.data) > 0
    /\ cacheFile = prevCache
    /\ metaFile.st = "ok"
    /\ metaFile.count = Len(cacheFile.data)

\* C20: one invocation of GetDirectories or Sync calls the remote at most
\* once, also when a fresh cache does not load and when the fetch fails and
\* the stale load fails too.
C20_NoRetry ==
    call.op \in {"GetDirectories", "Sync"} => remoteCalls <= 1

\* C20 witness: the cache was judged fresh but did not load, the one fetch
\* failed, the stale load failed again, and the call returned the error.
C20_Witness ==
    /\ call.op = "GetDirectories"
    /\ ~call.forceRefresh
    /\ call.valid
    /\ prevCache.st = "corrupt"
    /\ remoteCalls = 1
    /\ fetched.err # NoErr
    /\ ~ret.has
    /\ ret.err # NoErr

(***************************************************************************)
(* Properties of FilterDirectories (checked under FilterSpec).             *)
(***************************************************************************)
Filtering == call.op = "FilterDirectories"

Range(seq) == { seq[i] : i \in 1..Len(seq) }

\* The letters of the model's strings, lower case with upper case.
CasePairs == { <<"a", "A">>, <<"b", "B">>, <<"d", "D">>, <<"f", "F">>,
               <<"i", "I">>, <<"o", "O">>, <<"p", "P">>, <<"x", "X">> }

SameRune(c, d) == c = d \/ <<c, d>> \in CasePairs \/ <<d, c>> \in CasePairs

\* s and t are equal up to the case of their letters
SameIgnoringCase(s, t) ==
    Len(s) = Len(t) /\ \A i \in 1..Len(s) : SameRune(s[i], t[i])

\* some part of s equals t up to the case of the letters
OccursIgnoringCase(s, t) ==
    \E i \in 1..(Len(s) + 1) : \E j \in (i - 1)..Len(s) :
        SameIgnoringCase(SubSeq(s, i, j), t)

CategoryAccepted(d, o) ==
    \E c \in Range(o.Categories) : \E dc \in Range(d.Categories) : SameIgnoringCase(c, dc)

PricingAccepted(d, o) == \E p \in Range(o.Pricing) : SameIgnoringCase(p, d.Pricing)

LinkTypeAccepted(d, o) == \E l \in Range(o.LinkType) : SameIgnoringCase(l, d.LinkType)

QueryAccepted(d, o) ==
    OccursIgnoringCase(d.Name, o.Query) \/ OccursIgnoringCase(d.Description, o.Query)

\* C7: whatever the collection and the filter specification, the empty and the
\* absent (nil) one included, no record whose active flag is unset is returned.
C7_NoInactiveReturned ==
    (Filtering /\ ~result.panic) => \A d \in Range(result.dirs) : d.IsActive

\* C7, as far as it holds: with a filter specification that is not nil, no
\* record whose active flag is unset is kept or returned.
C7_NoInactiveUnlessNil ==
    (Filtering /\ ~options.nil) =>
        /\ \A d \in Range(filtered) : d.IsActive
        /\ \A d \in Range(result.dirs) : d.IsActive

\* C8: fields are joined by "and", the values of a field by "or": a record is
\* returned only if it is active and each of the category, pricing and
\* link-type sets that is not empty holds, up to case, one of its categories,
\* its pricing label, its link type; and every active record that satisfies
\* all configured predicates is kept before pagination.
C8_AndAcrossFieldsOrWithin ==
    (Filtering /\ ~options.nil) =>
        /\ \A d \in Range(filtered) \cup Range(result.dirs) :
              /\ d.IsActive
              /\ options.Categories # <<>> => CategoryAccepted(d, options)
              /\ options.Pricing # <<>> => PricingAccepted(d, options)
              /\ options.LinkType # <<>> => LinkTypeAccepted(d, options)
        /\ \A d \in Range(directories) :
              (/\ d.IsActive
               /\ options.Query # <<>> => QueryAccepted(d, options)
               /\ options.Categories # <<>> => CategoryAccepted(d, options)
               /\ options.Pricing # <<>> => PricingAccepted(d, options)
               /\ options.LinkType # <<>> => LinkTypeAccepted(d, options)
               /\ (options.DRMin > 0 /\ d.DomainRating > 0) => options.DRMin <= d.DomainRating
               /\ (options.DRMax > 0 /\ d.DomainRating > 0) => d.DomainRating <= options.DRMax)
              => d \in Range(filtered)

\* C8 witness: of two active records that both match the category set, the one
\* whose pricing label is not in the pricing set is dropped, the other is kept
\* through a label that differs in case from the requested one.
C8_Witness ==
    /\ Filtering /\ ~options.nil
    /\ Len(options.Categories) > 0 /\ Len(options.Pricing) > 1
    /\ Len(directories) = 2
    /\ \A d \in Range(directories) : d.IsActive /\ CategoryAccepted(d, options)
    /\ ~PricingAccepted(directories[1], options)
    /\ PricingAccepted(directories[2], options)
    /\ directories[2].Pricing \notin Range(options.Pricing)
    /\ filtered = <<directories[2]>>

\* The record passes every test of the loop but the two rating bounds.
PassesOtherFields(d, o) == Keeps(d, [o EXCEPT !.DRMin = 0, !.DRMax = 0])

WithinBounds(d, o) ==
    /\ o.DRMin > 0 => o.DRMin <= d.DomainRating
    /\ o.DRMax > 0 => d.DomainRating <= o.DRMax

\* C9: an active record whose rating is 0 passes both rating bounds whatever
\* they are, and a record whose rating is not 0 passes only if DRMin <= rating
\* (when DRMin > 0) and rating <= DRMax (when DRMax > 0).
C9_NonzeroRatingBounded ==
    (Filtering /\ ~options.nil) =>
        \A d \in Range(directories) :
            /\ (d.DomainRating = 0 /\ PassesOtherFields(d, options)) => d \in Range(filtered)
            /\ (d.DomainRating # 0 /\ d \in Range(filtered)) => WithinBounds(d, options)

\* C9, amended: a record whose rating is 0 or negative passes both rating
\* bounds whatever they are, and a record whose rating is positive passes
\* exactly if DRMin <= rating (when DRMin > 0) and rating <= DRMax (when
\* DRMax > 0), both bounds inclusive.
C9_PositiveRatingBounded ==
    (Filtering /\ ~options.nil) =>
        \A d \in Range(directories) :
            /\ (d.DomainRating <= 0 /\ PassesOtherFields(d, options)) => d \in Range(filtered)
            /\ d.DomainRating > 0 =>
                  (d \in Range(filtered) <=>
                      (PassesOtherFields(d, options) /\ WithinBounds(d, options)))

\* C9 witness: under a minimum bound of 2 a record of rating 0 is kept, one of
\* rating 1 is dropped; and a record whose rating equals the bound is kept.
C9_Witness ==
    /\ Filtering /\ ~options.nil
    /\ options.DRMin = 2
    /\ Len(directories) = 2
    /\ directories[1].DomainRating = 1 /\ PassesOtherFields(directories[1], options)
    /\ directories[2].DomainRating = 0
    /\ filtered = <<directories[2]>>

\* The options with one field made absent.
Without(o, field) ==
    CASE field = "Query"      -> [o EXCEPT !.Query = <<>>]
      [] field = "Categories" -> [o EXCEPT !.Categories = <<>>]
      [] field = "Pricing"    -> [o EXCEPT !.Pricing = <<>>]
      [] field = "LinkType"   -> [o EXCEPT !.LinkType = <<>>]
      [] field = "DRMin"      -> [o EXCEPT !.DRMin = 0]
      [] field = "DRMax"      -> [o EXCEPT !.DRMax = 0]

FilterFields == {"Query", "Categories", "Pricing", "LinkType", "DRMin", "DRMax"}

AllAbsent(o) ==
    /\ o.Query = <<>> /\ o.Categories = <<>> /\ o.Pricing = <<>> /\ o.LinkType = <<>>
    /\ o.DRMin = 0 /\ o.DRMax = 0

\* the active records of dirs, in their order
RECURSIVE ActiveOf(_)
ActiveOf(dirs) ==
    IF dirs = <<>> THEN <<>>
    ELSE IF Head(dirs).IsActive THEN <<Head(dirs)>> \o ActiveOf(Tail(dirs))
    ELSE ActiveOf(Tail(dirs))

\* C10: an absent field is no constraint: with every field absent and
\* limit <= 0 the call returns exactly the active records of the input, and
\* making any one field absent removes no record the call kept.
C10_AbsentFieldNoConstraint ==
    (Filtering /\ ~options.nil) =>
        /\ (AllAbsent(options) /\ options.Limit <= 0) =>
              result = Returns(ActiveOf(directories))
        /\ \A f \in FilterFields :
              Range(filtered) \subseteq Range(FilterLoop(directories, Without(options, f)))

\* C10 witness: the empty specification returned the two active records of a
\* collection and left out nothing but inactive ones.
C10_Witness ==
    /\ Filtering /\ ~options.nil
    /\ AllAbsent(options) /\ options.Limit = 0
    /\ Len(directories) = 2
    /\ directories[1] # directories[2]
    /\ \A d \in Range(directories) : d.IsActive /\ d.DomainRating > 0
    /\ result.dirs = directories

(***************************************************************************)
(* Properties of the sort and pagination stages (checked under ListSpec).  *)
(***************************************************************************)
Min(a, b) == IF a < b THEN a ELSE b

\* C11: pagination over the filtered sequence F of length n: with limit <= 0
\* the whole of F is returned, whatever the offset; with limit > 0 and
\* offset >= n nothing is returned; with limit > 0 and 0 <= offset < n the
\* records F[offset] .. F[min(offset+limit, n) - 1] are returned, so that of 5
\* records offset 3, limit 10 yields the last 2 and offset 5 yields none.
C11_Pagination ==
    (Filtering /\ ~options.nil) =>
        LET F == filtered
            n == Len(filtered)
            limit == options.Limit
            offset == options.Offset
        IN  /\ limit <= 0 => result = Returns(F)
            /\ (limit > 0 /\ offset >= n) => result = Returns(<<>>)
            /\ (limit > 0 /\ 0 <= offset /\ offset < n) =>
                  /\ ~result.panic
                  /\ Len(result.dirs) = Min(offset + limit, n) - offset
                  /\ \A i \in 1..Len(result.dirs) : result.dirs[i] = F[offset + i]
            /\ (n = 5 /\ offset = 3 /\ limit = 10) => result = Returns(<<F[4], F[5]>>)
            /\ (n = 5 /\ offset = 5 /\ limit = 10) => result = Returns(<<>>)

\* C11 witness: of 5 filtered records, not all the same, offset 3 with limit 10
\* returned the last 2.
C11_Witness ==
    /\ Filtering /\ ~options.nil
    /\ Len(filtered) = 5
    /\ filtered[3] # filtered[4] /\ filtered[4] # filtered[5]
    /\ options.Offset = 3 /\ options.Limit = 10
    /\ result = Returns(<<filtered[4], filtered[5]>>)

\* The letters of the model's names in alphabetical order.
Alphabet == <<"a", "b", "d", "f", "i", "o", "p", "x">>

LetterBefore(c, d) ==
    \E i \in 1..Len(Alphabet) : \E j \in (i + 1)..Len(Alphabet) :
        SameRune(Alphabet[i], c) /\ SameRune(Alphabet[j], d)

\* name s comes strictly before name t in case-insensitive alphabetical order
NameBefore(s, t) ==
    \E k \in 0..Min(Len(s), Len(t)) :
        /\ SameIgnoringCase(SubSeq(s, 1, k), SubSeq(t, 1, k))
        /\ \/ k = Len(s) /\ k < Len(t)
           \/ k < Len(s) /\ k < Len(t) /\ LetterBefore(s[k + 1], t[k + 1])

\* record a must come strictly before record b under the sort key
SortsBefore(a, b, sortBy) ==
    CASE sortBy = SortMostHelpful -> a.HelpfulCount > b.HelpfulCount
      [] sortBy = SortHighestDR   -> a.DomainRating > 0 /\ a.DomainRating > b.DomainRating
      [] sortBy = SortNewest      -> a.CreatedAt > b.CreatedAt
      [] sortBy = SortAlpha       -> NameBefore(a.Name, b.Name)
      [] OTHER                    -> FALSE

\* C12: whatever the order of the input, the records returned are ordered by
\* the requested key: no record stands behind one it must come before
\* ('helpful', 'dr' and 'newest' descending, unknown rating last; 'alpha'
\* ascending by name, case-insensitive).
C12_SortedByKey ==
    (Filtering /\ ~options.nil /\ ~result.panic) =>
        \A i \in 1..Len(result.dirs) : \A j \in (i + 1)..Len(result.dirs) :
            ~SortsBefore(result.dirs[j], result.dirs[i], options.SortBy)

\* records a and b have equal sort keys
SameKey(a, b, sortBy) == ~SortsBefore(a, b, sortBy) /\ ~SortsBefore(b, a, sortBy)

\* the records of seq that survived the filter and whose sort key equals r's,
\* in their order
RECURSIVE KeyClass(_, _)
KeyClass(seq, r) ==
    IF seq = <<>> THEN <<>>
    ELSE IF Head(seq) \in Range(filtered) /\ SameKey(Head(seq), r, options.SortBy)
         THEN <<Head(seq)>> \o KeyClass(Tail(seq), r)
         ELSE KeyClass(Tail(seq), r)

\* part is a run of consecutive elements of whole
IsSegment(part, whole) ==
    \E k \in 0..(Len(whole) - Len(part)) : SubSeq(whole, k + 1, k + Len(part)) = part

C21_NotFoundUnlessActive ==
    cmd.name = "show" =>
        /\ (~\E i \in 1..Len(remote.rows) :
                remote.rows[i].Slug = cmd.slug /\ remote.rows[i].IsActive)
              => (~cmd.found /\ cmd.err # NoErr)
        /\ cmd.found =>
              /\ cmd.dir \in Range(remote.rows)
              /\ cmd.dir.Slug = cmd.slug
              /\ cmd.dir.IsActive

(***************************************************************************)
(* Two processes of the tool on one cache directory.  Each runs invocation *)
(* after invocation of GetDirectories or Sync; the steps are the reads and *)
(* writes of the two files, which nothing locks.  No disk fault strikes.   *)
(***************************************************************************)
Procs == {1, 2}

Other(p) == 3 - p

NothingSaved == [has |-> FALSE, dirs |-> <<>>]

\* A process between two invocations that has not run yet.
ProcIdle == [pc |-> "idle", count |-> 0, dirs |-> <<>>, saved |-> NothingSaved]

\* os.WriteFile, the write after the open: the bytes go to offset 0 of the file
\* as it is by then.  When the other process has written a longer file since
\* this one truncated it, the tail of that file stays behind the new bytes.
WriteOver(cf, dirs) ==
    IF cf.st = "ok" /\ Len(cf.data) > Len(MarshalIndent(dirs))
    THEN CorruptFile
    ELSE DataFile(dirs)

Step(p, pc, count, dirs) ==
    [procs EXCEPT !.proc[p].pc = pc, !.proc[p].count = count, !.proc[p].dirs = dirs]

\* What no step of a process touches: the clock and the configuration, and the
\* records the other specifications keep.
RaceFrame ==
    /\ UNCHANGED <<now, ttl, call, remoteCalls, fetched, saved, ret, prevCache,
                   remote, cmd>>
    /\ UNCHANGED filterVars

\* an invocation begins: GetDirectories(ctx, false) goes to the freshness
\* check, GetDirectories(ctx, true) and Sync go to the fetch
Start(p) ==
    /\ procs.proc[p].pc = "idle"
    /\ \E forceRefresh \in BOOLEAN :
        procs' = Step(p, IF forceRefresh THEN "fetch" ELSE "check", 0, <<>>)
    /\ UNCHANGED <<cacheFile, metaFile>>
    /\ RaceFrame

\* isCacheValid: loadMetadata, the age, os.Stat
Check(p) ==
    /\ procs.proc[p].pc = "check"
    /\ procs' = IF isCacheValid(cacheFile, metaFile, now, ttl)
                THEN Step(p, "load", metaFile.count, <<>>)
                ELSE Step(p, "fetch", 0, <<>>)
    /\ UNCHANGED <<cacheFile, metaFile>>
    /\ RaceFrame

\* the other process is in a Save that has written the collection and not yet
\* the metadata
MidSave(p) == procs.proc[p].pc \in {"open_meta", "write_meta"}

\* What a Load of process p has met, for the record: a file that does not
\* parse ("partial"), or the collection that the unfinished Save of the other
\* process has written, under a metadata of another Save that counts
\* otherwise ("mixed").
Met(p, l) ==
    IF l.err # NoErr THEN {"partial"}
    ELSE IF /\ Len(l.dirs) # procs.proc[p].count
            /\ MidSave(Other(p))
            /\ l.dirs = procs.proc[Other(p)].dirs
         THEN {"mixed"}
    ELSE {}

\* loadFromCache after a check that judged the cache valid: the collection is
\* returned, or, when it does not load, the remote is tried
Load(p) ==
    /\ procs.proc[p].pc = "load"
    /\ LET l == loadFromCache(cacheFile)
           q == Step(p, IF l.err = NoErr THEN "idle" ELSE "fetch", 0, <<>>)
       IN  procs' = [q EXCEPT !.seen = @ \cup Met(p, l)]
    /\ UNCHANGED <<cacheFile, metaFile>>
    /\ RaceFrame

\* apiClient.GetDirectories: a failed fetch ends the invocation with nothing
\* written (Sync returns the error, GetDirectories returns the stale collection
\* or the error)
Fetch(p) ==
    /\ procs.proc[p].pc = "fetch"
    /\ \E r \in RemoteOutcomes :
        procs' = IF FetchFailed(r) THEN Step(p, "idle", 0, <<>>)
                 ELSE Step(p, "open_cache", 0, r.dirs)
    /\ UNCHANGED <<cacheFile, metaFile>>
    /\ RaceFrame

\* saveToCache line 258, os.WriteFile: open with O_TRUNC
OpenCache(p) ==
    /\ procs.proc[p].pc = "open_cache"
    /\ cacheFile' = CorruptFile
    /\ procs' = [procs EXCEPT !.proc[p].pc = "write_cache"]
    /\ UNCHANGED metaFile
    /\ RaceFrame

\* saveToCache line 258, os.WriteFile: write
WriteCache(p) ==
    /\ procs.proc[p].pc = "write_cache"
    /\ cacheFile' = WriteOver(cacheFile, procs.proc[p].dirs)
    /\ procs' = [procs EXCEPT !.proc[p].pc = "open_meta"]
    /\ UNCHANGED metaFile
    /\ RaceFrame

\* saveMetadata, os.WriteFile: open with O_TRUNC
OpenMeta(p) ==
    /\ procs.proc[p].pc = "open_meta"
    /\ metaFile' = CorruptMeta
    /\ procs' = [procs EXCEPT !.proc[p].pc = "write_meta"]
    /\ UNCHANGED cacheFile
    /\ RaceFrame

\* saveMetadata, os.WriteFile: write; the Save is over and the invocation returns
WriteMeta(p) ==
    /\ procs.proc[p].pc = "write_meta"
    /\ metaFile' = Stamp(metaFile, procs.proc[p].dirs, now)
    /\ procs' = [procs EXCEPT !.proc[p] =
                    [ProcIdle EXCEPT !.saved = [has |-> TRUE, dirs |-> procs.proc[p].dirs]]]
    /\ UNCHANGED cacheFile
    /\ RaceFrame

RaceNext ==
    \E p \in Procs :
        \/ Start(p)
        \/ Check(p)
        \/ Load(p)
        \/ Fetch(p)
        \/ OpenCache(p)
        \/ WriteCache(p)
        \/ OpenMeta(p)
        \/ WriteMeta(p)

\* A fresh installation with the longest CacheTTL; neither process has run.
RaceInit ==
    /\ cacheFile = AbsentFile
    /\ metaFile = AbsentMeta
    /\ now = 0
    /\ ttl = MaxTTL
    /\ call = NoCall
    /\ remoteCalls = 0
    /\ fetched = NoFetch
    /\ saved = NoSave
    /\ ret = Returned(FALSE, <<>>, NoErr)
    /\ prevCache = AbsentFile
    /\ directories = <<>>
    /\ options = NilOptions
    /\ filtered = <<>>
    /\ result = Returns(<<>>)
    /\ again = NoRepeat
    /\ remote = NoRemote
    /\ cmd = NoCmd
    /\ procs = [proc |-> [p \in Procs |-> ProcIdle], seen |-> {}]

RaceSpec == RaceInit /\ [][RaceNext]_vars

(***************************************************************************)
(* A further claim checked under ListSpec.                                 *)
(***************************************************************************)
\* C30: for every limit and every offset, a negative offset and an
\* offset + limit beyond the end included, FilterDirectories returns
\* normally, and what it returns is a contiguous run of the filtered
\* sequence, of at most limit records when limit > 0.
C30_PaginationTotal ==
    (Filtering /\ ~options.nil) =>
        /\ ~result.panic
        /\ \E k \in 0..Len(filtered) :
              /\ k + Len(result.dirs) <= Len(filtered)
              /\ \A i \in 1..Len(result.dirs) : result.dirs[i] = filtered[k + i]
        /\ options.Limit > 0 => Len(result.dirs) <= options.Limit

(***************************************************************************)
(* Further claims checked under Spec.                                      *)
(***************************************************************************)
\* the Save of the step failed before metadata.json was reached
CollectionWriteFailed(err) ==
    /\ err # NoErr
    /\ err[1] \in {"failed to create cache directory", "failed to write cache file"}

\* C23: a Save writes the collection first and the metadata second, stamped
\* with the current time and the collection's length; no operation writes
\* the metadata unless the collection write of the same Save has just
\* succeeded, so a Save that fails at the collection leaves the metadata as
\* it was.  (The clock stands still during an operation: now' = now tells an
\* operation's step from the passing of time.)
C23_CollectionBeforeMetadata ==
    [][ /\ (metaFile' # metaFile /\ metaFile'.st # "absent")
            => /\ saved'.called
               /\ ~CollectionWriteFailed(saved'.err)
               /\ cacheFile' = DataFile(fetched'.dirs)
        /\ (now' = now /\ saved'.called /\ CollectionWriteFailed(saved'.err))
            => metaFile' = metaFile
        /\ (now' = now /\ saved'.called /\ saved'.err = NoErr)
            => /\ cacheFile' = DataFile(fetched'.dirs)
               /\ metaFile' = CacheMetadata(now, Len(fetched'.dirs))
      ]_vars

\* C23 witness: a Save at a time after 0 has replaced an older collection and
\* stamped the metadata with that time and the new length
C23_Witness ==
    /\ saved.called
    /\ saved.err = NoErr
    /\ now > 0
    /\ fetched.dirs # <<>>
    /\ prevCache.st = "ok"
    /\ prevCache # cacheFile
    /\ cacheFile = DataFile(fetched.dirs)
    /\ metaFile = CacheMetadata(now, Len(fetched.dirs))

\* C24 (as the code has it): after a Save that returned an error the on-disk
\* collection is what it was before the call only if the Save failed at
\* MkdirAll or at opening directories.json; a write of directories.json that
\* failed midway leaves the file truncated, and a Save that failed at the
\* metadata has already replaced the collection by the newly fetched data.
C24_CollectionAfterSaveError ==
    (saved.called /\ saved.err # NoErr) =>
        CASE saved.err[1] = "failed to create cache directory" ->
                cacheFile = prevCache
          [] saved.err[1] = "failed to write cache file" ->
                cacheFile = prevCache \/ cacheFile = CorruptFile
          [] saved.err[1] = "failed to save metadata" ->
                cacheFile = DataFile(fetched.dirs)
          [] OTHER -> FALSE

\* C24 witness: a Save that failed at the metadata, after it had replaced an
\* older collection by the fetched one
C24_Witness ==
    /\ saved.called
    /\ saved.err # NoErr
    /\ saved.err[1] = "failed to save metadata"
    /\ prevCache.st = "ok"
    /\ cacheFile # prevCache
    /\ cacheFile = DataFile(fetched.dirs)

\* C24 (as stated): after a Save that returned an error the on-disk collection
\* still holds the data it held before the call.
C24_StaleAfterSaveError ==
    (saved.called /\ saved.err # NoErr) => cacheFile = prevCache

\* C25 (as the code has it): Sync returns an error if and only if the remote
\* fetch failed or the save of the fetched data failed; the error of a failed
\* save is returned wrapped, not logged as a warning as GetDirectories does.
C25_SyncErrorIffFetchOrSaveFailed ==
    call.op = "Sync" =>
        /\ ret.err # NoErr <=> (fetched.err # NoErr \/ (saved.called /\ saved.err # NoErr))
        /\ fetched.err # NoErr => ~saved.called
        /\ (saved.called /\ saved.err # NoErr)
              => ret.err = Wrap("failed to save to cache", saved.err)

\* C25 witness: a Sync whose fetch succeeded and whose save failed
C25_Witness ==
    /\ call.op = "Sync"
    /\ fetched.err = NoErr
    /\ fetched.dirs # <<>>
    /\ saved.called
    /\ saved.err # NoErr
    /\ ret.err # NoErr

\* C25 (as stated): Sync returns an error if and only if the remote fetch
\* failed.
C25_SyncErrorIffFetchFailed ==
    call.op = "Sync" => (ret.err # NoErr <=> fetched.err # NoErr)

\* the last operation was a Sync or a GetDirectories that fetched from the
\* remote and returned without an error
RefreshReturned ==
    /\ call.op \in {"Sync", "GetDirectories"}
    /\ remoteCalls > 0
    /\ fetched.err = NoErr
    /\ ret.err = NoErr

C29_ValidMeansServed ==
    call.op = "GetCacheInfo" =>
        /\ ret.err = NoErr
        /\ remoteCalls = 0
        /\ cacheFile = prevCache
        /\ ret.info.valid => (call.valid /\ loadFromCache(cacheFile).err = NoErr)

(***************************************************************************)
(* Claims checked under NoFaultSpec.                                       *)
(***************************************************************************)
\* C27: in one process on a disk that never fails, after any sequence of
\* GetDirectories, Sync and Clear the store is consistent: the metadata
\* exists only if the collection exists, and when both exist both are
\* readable and the count of the metadata is the number of records of the
\* on-disk collection.
C27_StoreConsistent ==
    /\ metaFile.st # "absent" => cacheFile.st # "absent"
    /\ (metaFile.st # "absent" /\ cacheFile.st # "absent")
          => /\ loadMetadata(metaFile).err = NoErr
             /\ loadFromCache(cacheFile).err = NoErr
             /\ metaFile.count = Len(loadFromCache(cacheFile).dirs)

\* C27 witness: a Save, later than time 0, of the longest collection into a
\* store that held none, with the metadata counting its records
C27_Witness ==
    /\ call.op \in {"GetDirectories", "Sync"}
    /\ saved.called
    /\ prevCache.st = "absent"
    /\ now > 0
    /\ cacheFile.st = "ok"
    /\ metaFile.st = "ok"
    /\ metaFile.last_updated > 0
    /\ metaFile.count = MaxCount
    /\ Len(loadFromCache(cacheFile).dirs) = MaxCount

(***************************************************************************)
(* Claims checked under FavSpec.                                           *)
(***************************************************************************)
FavoritesCommands == {"favorites list", "favorites add", "favorites remove"}

\* a favorites list that returned before it needed the directories: no token,
\* GetFavorites failed, or no favorites
ListReturnedEarly(c, favorites) ==
    \/ c.err = AuthRequired
    \/ (c.err # NoErr /\ c.err[1] = "failed to get favorites")
    \/ (c.err = NoErr /\ favorites = {})

\* C22 (as the code has it): favorites add and favorites remove never touch
\* the cache; favorites list leaves it alone when it returns early (no token,
\* GetFavorites failed, no favorites), and otherwise invokes the cache's
\* GetDirectories(ctx, false), which reads the two artifacts and rewrites
\* them only on a miss.
C22_FavoritesCacheUse ==
    [][ /\ cmd'.name \in {"favorites add", "favorites remove"}
            => UNCHANGED cacheVars
        /\ (cmd'.name = "favorites list" /\ ListReturnedEarly(cmd', remote.favorites))
            => UNCHANGED cacheVars
        /\ (cmd'.name = "favorites list" /\ ~ListReturnedEarly(cmd', remote.favorites))
            => /\ call'.op = "GetDirectories"
               /\ ~call'.forceRefresh
               /\ prevCache' = cacheFile
               /\ (call'.valid /\ loadFromCache(cacheFile).err = NoErr)
                     => (remoteCalls' = 0 /\ UNCHANGED <<cacheFile, metaFile>>)
      ]_vars

\* C22 witness: a favorites list that showed a favorite out of the directories
\* the cache's GetDirectories returned, after a favorites add
C22_Witness ==
    /\ cmd.name = "favorites list"
    /\ cmd.err = NoErr
    /\ cmd.shown # <<>>
    /\ remote.favorites # {}
    /\ call.op = "GetDirectories"
    /\ ret.dirs # <<>>

\* C22 (as stated): no favorites command invokes the cache's GetDirectories or
\* reads or writes the collection and metadata artifacts.
C22_FavoritesNeverTouchCache ==
    [][cmd'.name \in FavoritesCommands
          => UNCHANGED <<cacheFile, metaFile, call, remoteCalls>>]_vars

(***************************************************************************)
(* Claims checked under RaceSpec.                                          *)
(***************************************************************************)
Quiescent == \A p \in Procs : procs.proc[p].pc = "idle"

\* both files are readable and the count of the metadata is not the length of
\* the collection
DiskMixed ==
    /\ cacheFile.st = "ok"
    /\ metaFile.st = "ok"
    /\ metaFile.count # Len(loadFromCache(cacheFile).dirs)

\* C26: the two processes can race.  Whenever both are between invocations
\* and the disk holds a collection and a metadata that disagree, the two come
\* from different Saves: the collection is the one of the last Save of one
\* process and the metadata the one of the last Save of the other.  The
\* witness shows that such a state is reached, and that a freshness check
\* and Load have met a collection of another Save than the metadata's and a
\* partly written collection file.
C26_MixedDiskFromTwoSaves ==
    (Quiescent /\ DiskMixed) =>
        \E p \in Procs :
            /\ procs.proc[p].saved.has
            /\ procs.proc[Other(p)].saved.has
            /\ loadFromCache(cacheFile).dirs = procs.proc[p].saved.dirs
            /\ metaFile.count = Len(procs.proc[Other(p)].saved.dirs)

\* C26 witness: both processes are between invocations, the collection and
\* the metadata on disk come from different Saves, and before that a
\* freshness check and Load have returned a collection that was not the one
\* the metadata described, and another Load has met a partly written file
C26_Witness ==
    /\ Quiescent
    /\ DiskMixed
    /\ procs.seen = {"mixed", "partial"}
====
